---- MODULE Spec2Model ----
(***************************************************************************)
(* Model of marketconnect/reg-rag.                                         *)
(*                                                                         *)
(*   Spec     the hybrid retriever (services/agent_service.py) reading the *)
(*            SQLite database and the Qdrant collection while the          *)
(*            ingestion script (scripts/setup_hybrid_search.py) rebuilds   *)
(*            them.                                                        *)
(*   SpecApi  the /find_paragraph handler (api/main.py) around the ReAct   *)
(*            agent executor configured in create_agent.                   *)
(*   SpecSearch  one call of _search_sqlite (services/agent_service.py) on *)
(*            a query text, against a database some ingestion run left.    *)
(*   SpecIngest  the ingestion script run again and again, with the        *)
(*            history of the ids its commits stored.                       *)
(***************************************************************************)
EXTENDS Integers, Sequences, FiniteSets, TLC

\* ------------------------------------------------------------------ bounds
\* Largest number of paragraphs one ingestion run prepares.
MaxDocs == 2
\* Largest k a retrieve call is given.
MaxK == 2
\* Largest number of characters of a query text.
MaxQuery == 3

\* ------------------------------------------------------- program constants
k_rrf == 60
\* Embedding size of the service's model (MODEL_NAME, mpnet-base-v2).
SvcDim == 768
\* AgentExecutor(max_iterations=5).
max_iterations == 5

\* The paragraphs (doc_id, chapter_id, paragraph_id) of the source files, in
\* the order prepare_documents_from_directory meets them (sorted file names,
\* then chapters and paragraphs as they stand in the file).
Paras == 1..MaxDocs
\* vector_size of main (line 160): the embedding size of the script's
\* MODEL_NAME, which is the service's MODEL_NAME.
vector_size == SvcDim

\* ----------------------------------------------------------------- helpers
Range(s) == {s[i] : i \in DOMAIN s}
MinOf(a, b) == IF a <= b THEN a ELSE b
MaxOfSet(S) == IF S = {} THEN 0 ELSE CHOOSE x \in S : \A y \in S : y <= x
Take(s, n) == SubSeq(s, 1, MinOf(n, Len(s)))
\* All sequences without repetition over S, of length at most n.
InjSeqs(S, n) ==
    {s \in UNION {[1..m -> S] : m \in 0..n} :
        \A i, j \in DOMAIN s : i # j => s[i] # s[j]}
EmptyFun == [x \in {} |-> 0]

\* A score is the exact fraction <<numerator, denominator>>; the code holds
\* the same value as a double, and for these magnitudes doubles order and
\* compare as the fractions do.
Zero == <<0, 1>>
FracAdd(a, b) == <<a[1] * b[2] + b[1] * a[2], a[2] * b[2]>>
FracEq(a, b) == a[1] * b[2] = b[1] * a[2]
FracLess(a, b) == a[1] * b[2] < b[1] * a[2]

\* ------------------------------------------------- _reciprocal_rank_fusion
\* fused_scores is a dict: a sequence of entries in insertion order.
HasKey(fs, id) == \E i \in DOMAIN fs : fs[i].id = id

\* AddHit with "=" for "+=": the last list's term replaces the sum.
AddHitOverwrite(fs, id, rank) ==
    LET withKey == IF HasKey(fs, id) THEN fs
                   ELSE Append(fs, [id |-> id, score |-> Zero])
    IN [i \in DOMAIN withKey |->
          IF withKey[i].id = id
          THEN [id |-> id, score |-> <<1, k_rrf + rank + 1>>]
          ELSE withKey[i]]

\* One hit of a list at 0-based rank: lines 75-78.
AddHit(fs, id, rank) ==
    LET withKey == IF HasKey(fs, id) THEN fs
                   ELSE Append(fs, [id |-> id, score |-> Zero])
    IN [i \in DOMAIN withKey |->
          IF withKey[i].id = id
          THEN [id |-> id,
                score |-> FracAdd(withKey[i].score, <<1, k_rrf + rank + 1>>)]
          ELSE withKey[i]]

\* The inner loop over one result list: line 74.
RECURSIVE AddList(_, _, _)
AddList(fs, results, rank) ==
    IF rank >= Len(results) THEN fs
    ELSE AddList(AddHit(fs, results[rank + 1], rank), results, rank + 1)

\* sorted(..., key=score, reverse=True) is stable: an entry goes after every
\* entry whose score is greater or equal.
RECURSIVE InsertDesc(_, _)
InsertDesc(sorted, e) ==
    IF sorted = <<>> THEN <<e>>
    ELSE IF FracLess(Head(sorted).score, e.score) THEN <<e>> \o sorted
    ELSE <<Head(sorted)>> \o InsertDesc(Tail(sorted), e)

RECURSIVE SortDesc(_, _)
SortDesc(acc, rest) ==
    IF rest = <<>> THEN acc
    ELSE SortDesc(InsertDesc(acc, Head(rest)), Tail(rest))

ReciprocalRankFusion(sqliteList, qdrantList) ==
    SortDesc(<<>>, AddList(AddList(<<>>, sqliteList, 0), qdrantList, 0))

\* ------------------------------------------------------ retrieve: hydration
FusedIds(fused) == [i \in DOMAIN fused |-> fused[i].id]

\* results_map: the rows of documents whose id is IN top_ids (line 107).
ResultsMap(store, top_ids) ==
    [id \in (DOMAIN store) \cap Range(top_ids) |-> [id |-> id, para |-> store[id]]]

\* ordered_docs (line 108).
RECURSIVE OrderedDocs(_, _)
OrderedDocs(results_map, top_ids) ==
    IF top_ids = <<>> THEN <<>>
    ELSE IF Head(top_ids) \in DOMAIN results_map
         THEN <<results_map[Head(top_ids)]>> \o OrderedDocs(results_map, Tail(top_ids))
         ELSE OrderedDocs(results_map, Tail(top_ids))

Hydrate(store, fused, kk) ==
    LET top_ids == Take(FusedIds(fused), kk)
    IN OrderedDocs(ResultsMap(store, top_ids), top_ids)

\* ------------------------------------------------- the keyword query text
\* The characters a query is written with: two letters and a digit, the
\* underscore, the blank, and the star of the FTS5 query syntax.
Alnum == {"O", "R", "7"}
Whitespace == {" "}
QChars == Alnum \cup {"_"} \cup Whitespace \cup {"*"}
Queries == UNION {[1..n -> QChars] : n \in 0..MaxQuery}
\* \w of a str pattern: the characters str.isalnum accepts, and the underscore.
WordChars == Alnum \cup {"_"}

\* re.sub with the empty replacement: the characters are removed.
sanitize_fts_query_delete(q) ==
    SelectSeq(q, LAMBDA c : c \in WordChars \cup Whitespace)

\* _sanitize_fts_query: re.sub(r'[^\w\s]', ' ', query).
sanitize_fts_query(q) ==
    [i \in 1..Len(q) |-> IF q[i] \in WordChars \cup Whitespace THEN q[i] ELSE " "]

\* The barewords of a sanitized MATCH string, cur being the one that is read.
RECURSIVE SplitWords(_, _)
SplitWords(s, cur) ==
    IF s = <<>> THEN (IF cur = <<>> THEN <<>> ELSE <<cur>>)
    ELSE IF Head(s) \in Whitespace
         THEN (IF cur = <<>> THEN <<>> ELSE <<cur>>) \o SplitWords(Tail(s), <<>>)
         ELSE SplitWords(Tail(s), Append(cur, Head(s)))
Barewords(s) == SplitWords(s, <<>>)

\* The FTS5 parser on a string of barewords: at least one phrase, and the
\* bareword OR only between two phrases. Anything else is
\* "fts5: syntax error", an sqlite3.OperationalError.
OrKeyword == <<"O", "R">>
FtsSyntaxOk(s) ==
    LET w == Barewords(s)
    IN /\ w # <<>>
       /\ w[1] # OrKeyword
       /\ w[Len(w)] # OrKeyword
       /\ \A i \in 1..(Len(w) - 1) : ~(w[i] = OrKeyword /\ w[i + 1] = OrKeyword)

\* --------------------------------------------------------------- variables
VARIABLES
    \* the SQLite file: whether the table documents, the virtual table
    \* documents_fts and the trigger documents_after_insert exist; the
    \* committed rows of documents; the committed rowids of documents_fts
    documents_table, documents_fts, documents_after_insert, rows, fts_rows,
    \* the Qdrant collection
    coll_exists, coll_dim, points,
    \* the ingestion script: its position, its documents, the rows and the
    \* documents_fts entries of its open transaction, its points
    ipc, documents, txn_rows, txn_fts, points_to_upsert,
    \* one retrieve call; sqlite_error and qdrant_error are what the two except
    \* clauses print, rows_seen the documents table the SELECT of line 103
    \* read, store_read whether the call got as far as that SELECT
    rpc, k, sqlite_results, qdrant_results, fused_results,
    ordered_docs, raised, sqlite_error, qdrant_error, rows_seen, store_read,
    \* the agent executor and the request handler
    apc, iterations, tool_calls, final_emitted, answer, response, outcome,
    \* one call of _search_sqlite taken alone: its argument, the string it
    \* hands to MATCH, its position
    query, sanitized_query, spc,
    \* history: every <<id, paragraph>> a commit of the script has stored,
    \* recorded under SpecIngest only
    denoted

sqliteVars == <<documents_table, documents_fts, documents_after_insert, rows, fts_rows>>
qdrantVars == <<coll_exists, coll_dim, points>>
storeVars == <<sqliteVars, qdrantVars>>
ingestVars == <<ipc, documents, txn_rows, txn_fts, points_to_upsert>>
readVars == <<rpc, k, sqlite_results, qdrant_results, fused_results,
              ordered_docs, raised, sqlite_error, qdrant_error, rows_seen,
              store_read>>
apiVars == <<apc, iterations, tool_calls, final_emitted, answer, response, outcome>>
ftsVars == <<query, sanitized_query, spc>>
histVars == <<denoted>>
vars == <<storeVars, ingestVars, readVars, apiVars, ftsVars, histVars>>

\* ------------------------------------------------------------------- Init
InitStore ==
    /\ documents_table = FALSE
    /\ documents_fts = FALSE
    /\ documents_after_insert = FALSE
    /\ rows = EmptyFun
    /\ fts_rows = {}
    /\ coll_exists = FALSE
    /\ coll_dim = 0
    /\ points = EmptyFun

InitIngest ==
    /\ ipc = "idle"
    /\ documents = <<>>
    /\ txn_rows = EmptyFun
    /\ txn_fts = {}
    /\ points_to_upsert = <<>>

InitRead ==
    /\ rpc = "idle"
    /\ k = 1
    /\ sqlite_results = <<>>
    /\ qdrant_results = <<>>
    /\ fused_results = <<>>
    /\ ordered_docs = <<>>
    /\ raised = FALSE
    /\ sqlite_error = "none"
    /\ qdrant_error = "none"
    /\ rows_seen = EmptyFun
    /\ store_read = FALSE

InitFts ==
    /\ query = <<>>
    /\ sanitized_query = <<>>
    /\ spc = "idle"

InitHist == denoted = {}

\* ------------------------------------------- setup_hybrid_search.py: main
\* prepare_documents_from_directory gives the paragraphs of the files that
\* are in raw_data/ at this run, in their order (sorted file names). The
\* runs taken are those over the first n files, for every n, and the run
\* over the last file alone. With no documents main returns before it
\* touches either store.
PreparedDocuments ==
    {[i \in 1..n |-> i] : n \in 0..MaxDocs} \cup {<<MaxDocs>>}

StartRun ==
    /\ ipc = "idle"
    /\ \E docs \in PreparedDocuments :
          /\ documents' = docs
          /\ ipc' = IF docs = <<>> THEN "idle" ELSE "drop_documents"
    /\ UNCHANGED <<txn_rows, txn_fts, points_to_upsert, storeVars, readVars,
                   apiVars, ftsVars, histVars>>

\* setup_sqlite runs five statements. sqlite3 opens a transaction only
\* before INSERT/UPDATE/DELETE, so each of them is committed by itself and
\* a reader can see the file between any two of them.
\* Line 99, DROP TABLE IF EXISTS documents: the table goes with its rows
\* and its trigger; documents_fts keeps its index.
DropDocuments ==
    /\ ipc = "drop_documents"
    /\ documents_table' = FALSE
    /\ documents_after_insert' = FALSE
    /\ rows' = EmptyFun
    /\ ipc' = "drop_fts"
    /\ UNCHANGED <<documents_fts, fts_rows, qdrantVars, documents, txn_rows,
                   txn_fts, points_to_upsert, readVars, apiVars, ftsVars, histVars>>

\* Line 100, DROP TABLE IF EXISTS documents_fts.
DropFts ==
    /\ ipc = "drop_fts"
    /\ documents_fts' = FALSE
    /\ fts_rows' = {}
    /\ ipc' = "create_documents"
    /\ UNCHANGED <<documents_table, documents_after_insert, rows, qdrantVars,
                   documents, txn_rows, txn_fts, points_to_upsert, readVars,
                   apiVars, ftsVars, histVars>>

\* Lines 103-111, CREATE TABLE documents.
CreateDocuments ==
    /\ ipc = "create_documents"
    /\ documents_table' = TRUE
    /\ ipc' = "create_fts"
    /\ UNCHANGED <<documents_fts, documents_after_insert, rows, fts_rows,
                   qdrantVars, documents, txn_rows, txn_fts, points_to_upsert,
                   readVars, apiVars, ftsVars, histVars>>

\* Lines 114-120, CREATE VIRTUAL TABLE documents_fts.
CreateFts ==
    /\ ipc = "create_fts"
    /\ documents_fts' = TRUE
    /\ ipc' = "create_trigger"
    /\ UNCHANGED <<documents_table, documents_after_insert, rows, fts_rows,
                   qdrantVars, documents, txn_rows, txn_fts, points_to_upsert,
                   readVars, apiVars, ftsVars, histVars>>

\* Lines 123-128, CREATE TRIGGER documents_after_insert.
CreateTrigger ==
    /\ ipc = "create_trigger"
    /\ documents_after_insert' = TRUE
    /\ ipc' = "setup_qdrant"
    /\ UNCHANGED <<documents_table, documents_fts, rows, fts_rows, qdrantVars,
                   documents, txn_rows, txn_fts, points_to_upsert, readVars,
                   apiVars, ftsVars, histVars>>

\* setup_qdrant: recreate_collection leaves an empty collection of the
\* ingestion model's size.
SetupQdrant ==
    /\ ipc = "setup_qdrant"
    /\ coll_exists' = TRUE
    /\ coll_dim' = vector_size
    /\ points' = EmptyFun
    /\ txn_rows' = EmptyFun
    /\ txn_fts' = {}
    /\ points_to_upsert' = <<>>
    /\ ipc' = "insert"
    /\ UNCHANGED <<sqliteVars, documents, readVars, apiVars, ftsVars, histVars>>

\* One turn of the loop of step 4: INSERT (inside the open transaction),
\* the trigger's INSERT into documents_fts, lastrowid, and the point
\* prepared for Qdrant under the same id. The table is INTEGER PRIMARY KEY
\* without AUTOINCREMENT: the rowid given is one more than the largest
\* rowid the table holds.
InsertDocument ==
    /\ ipc = "insert"
    /\ LET i == Len(points_to_upsert) + 1
           db_id == MaxOfSet(DOMAIN rows \cup DOMAIN txn_rows) + 1
       IN /\ txn_rows' = [id \in DOMAIN txn_rows \cup {db_id} |->
                            IF id = db_id THEN documents[i] ELSE txn_rows[id]]
          /\ txn_fts' = IF documents_after_insert THEN txn_fts \cup {db_id}
                        ELSE txn_fts
          /\ points_to_upsert' =
                Append(points_to_upsert, [id |-> db_id, payload |-> documents[i]])
          /\ ipc' = IF i = Len(documents) THEN "upsert" ELSE "insert"
    /\ UNCHANGED <<storeVars, documents, readVars, apiVars, ftsVars, histVars>>

\* qdrant_client.upsert(..., wait=True): the points are searchable at once.
UpsertPoints ==
    /\ ipc = "upsert"
    /\ points' = [id \in DOMAIN points \cup {p.id : p \in Range(points_to_upsert)} |->
                    IF \E p \in Range(points_to_upsert) : p.id = id
                    THEN (CHOOSE p \in Range(points_to_upsert) : p.id = id).payload
                    ELSE points[id]]
    /\ ipc' = "commit"
    /\ UNCHANGED <<sqliteVars, coll_exists, coll_dim, documents, txn_rows,
                   txn_fts, points_to_upsert, readVars, apiVars, ftsVars, histVars>>

\* sql_conn.commit(): the inserted rows, and through the trigger their
\* documents_fts entries, become visible to other connections.
CommitRows ==
    /\ ipc = "commit"
    /\ rows' = [id \in DOMAIN rows \cup DOMAIN txn_rows |->
                  IF id \in DOMAIN txn_rows THEN txn_rows[id] ELSE rows[id]]
    /\ fts_rows' = fts_rows \cup txn_fts
    /\ txn_rows' = EmptyFun
    /\ txn_fts' = {}
    /\ points_to_upsert' = <<>>
    /\ documents' = <<>>
    /\ ipc' = "idle"
    /\ UNCHANGED <<documents_table, documents_fts, documents_after_insert,
                   qdrantVars, readVars, apiVars, ftsVars>>

CommitSqlite == CommitRows /\ UNCHANGED histVars

\* The same step, the bindings it makes visible written to the history.
CommitSqliteRecorded ==
    /\ CommitRows
    /\ denoted' = denoted \cup {<<id, rows'[id]>> : id \in DOMAIN rows'}

\* main catches nothing: a statement of setup_sqlite (the file is locked by
\* another connection), a call to Qdrant, model.encode, an INSERT of the loop
\* (the file is locked, or a value sqlite3 cannot bind) or the commit that
\* throws ends the script where it stands, and the open transaction is rolled
\* back with the connection. The script's locals end with it.
IngestCrash ==
    /\ ipc \in {"drop_documents", "drop_fts", "create_documents", "create_fts",
                "create_trigger", "setup_qdrant", "insert", "upsert", "commit"}
    /\ txn_rows' = EmptyFun
    /\ txn_fts' = {}
    /\ points_to_upsert' = <<>>
    /\ documents' = <<>>
    /\ ipc' = "idle"
    /\ UNCHANGED <<storeVars, readVars, apiVars, ftsVars, histVars>>

\* ------------------------------------------ HybridRetriever.retrieve(q, k)
RetrieveStart ==
    /\ rpc \in {"idle", "done"}
    /\ \E kk \in 1..MaxK : k' = kk
    /\ rpc' = "sqlite"
    /\ sqlite_results' = <<>>
    /\ qdrant_results' = <<>>
    /\ fused_results' = <<>>
    /\ ordered_docs' = <<>>
    /\ raised' = FALSE
    /\ sqlite_error' = "none"
    /\ qdrant_error' = "none"
    /\ rows_seen' = EmptyFun
    /\ store_read' = FALSE
    /\ UNCHANGED <<storeVars, ingestVars, apiVars, ftsVars, histVars>>

\* The SELECT of lines 46-49 on a MATCH string: "no such table" without
\* documents_fts and "fts5: syntax error" for a string the FTS5 parser
\* rejects, both sqlite3.OperationalError; otherwise a ranked list of at
\* most kk rowids of documents_fts. A hit is modelled by its id: fusion
\* reads the position, never the score.
SqliteSearch(syntax_ok, kk) ==
    IF ~documents_fts \/ ~syntax_ok
    THEN {[error |-> "sqlite3.Error", hits |-> <<>>]}
    ELSE {[error |-> "none", hits |-> h] : h \in InjSeqs(fts_rows, kk)}

\* The ingestion script has its write transaction open: from its first
\* INSERT to its commit. A statement of another connection can then end in
\* "database is locked" (sqlite3.OperationalError) after the busy timeout.
WriteTransactionOpen == txn_rows # EmptyFun

\* _search_sqlite inside retrieve, the query text left open (fault: a
\* syntax error of the MATCH string, or a locked file): sqlite3.Error is
\* caught and gives [].
SearchSqlite ==
    /\ rpc = "sqlite"
    /\ \E fault \in BOOLEAN : \E r \in SqliteSearch(~fault, k) :
          /\ sqlite_results' = (IF r.error = "none" THEN r.hits ELSE <<>>)
          /\ sqlite_error' = r.error
    /\ rpc' = "qdrant"
    /\ UNCHANGED <<k, qdrant_results, fused_results, ordered_docs, raised,
                   qdrant_error, rows_seen, store_read, storeVars, ingestVars,
                   apiVars, ftsVars, histVars>>

\* What the vector backend does with the query vector: an error for a
\* missing collection, a vector of the wrong size or an unreachable server;
\* otherwise the min(k, number of points) nearest points.
QdrantSearch(fault) ==
    IF fault THEN {[error |-> "unreachable", hits |-> <<>>]}
    ELSE IF ~coll_exists THEN {[error |-> "no collection", hits |-> <<>>]}
    ELSE IF coll_dim # SvcDim THEN {[error |-> "dimension mismatch", hits |-> <<>>]}
    ELSE {[error |-> "none", hits |-> h] :
            h \in {s \in InjSeqs(DOMAIN points, k) :
                     Len(s) = MinOf(k, Cardinality(DOMAIN points))}}

\* _search_qdrant: every Exception is caught and gives [].
SearchQdrant ==
    /\ rpc = "qdrant"
    /\ \E fault \in BOOLEAN : \E r \in QdrantSearch(fault) :
          /\ qdrant_results' = (IF r.error = "none" THEN r.hits ELSE <<>>)
          /\ qdrant_error' = r.error
    /\ rpc' = "fuse"
    /\ UNCHANGED <<k, sqlite_results, fused_results, ordered_docs, raised,
                   sqlite_error, rows_seen, store_read, storeVars, ingestVars,
                   apiVars, ftsVars, histVars>>

\* retrieve without the early return of lines 94-95.
NothingFusedIgnored(fused) == FALSE

\* Line 94: "if not fused_results".
NothingFused(fused) == fused = <<>>

\* Lines 92-110: fusion, the early return, and the SELECT on documents,
\* which nothing guards: without the table, or with the file locked by the
\* ingestion script's transaction, it raises out of retrieve.
FuseAndHydrate ==
    /\ rpc = "fuse"
    /\ \E locked \in {FALSE} \cup (IF WriteTransactionOpen THEN {TRUE} ELSE {}) :
       LET fused == ReciprocalRankFusion(sqlite_results, qdrant_results)
       IN /\ fused_results' = fused
          /\ IF NothingFused(fused)
             THEN /\ ordered_docs' = <<>>
                  /\ raised' = FALSE
                  /\ rows_seen' = EmptyFun
                  /\ store_read' = FALSE
             ELSE IF ~documents_table \/ locked
             THEN /\ ordered_docs' = <<>>
                  /\ raised' = TRUE
                  /\ rows_seen' = EmptyFun
                  /\ store_read' = TRUE
             ELSE /\ ordered_docs' = Hydrate(rows, fused, k)
                  /\ raised' = FALSE
                  /\ rows_seen' = rows
                  /\ store_read' = TRUE
    /\ rpc' = "done"
    /\ UNCHANGED <<k, sqlite_results, qdrant_results, sqlite_error,
                   qdrant_error, storeVars, ingestVars, apiVars, ftsVars, histVars>>

Next ==
    \/ StartRun
    \/ DropDocuments
    \/ DropFts
    \/ CreateDocuments
    \/ CreateFts
    \/ CreateTrigger
    \/ SetupQdrant
    \/ InsertDocument
    \/ UpsertPoints
    \/ CommitSqlite
    \/ IngestCrash
    \/ RetrieveStart
    \/ SearchSqlite
    \/ SearchQdrant
    \/ FuseAndHydrate

\* ----------------------------------------------------- texts of the agent
\* A text is a sequence of tokens, each standing for a fixed string:
\*   FJ  ```json            F3  ```           NL  newline      SP  space
\*   LB  {    RB  }    CM  ,
\*   DOC "doc_id":9    CH "chapter_id":5    PAR "paragraph_id":4
\*   ERR "error":"nf"  ERS "error" :"nf"
\*   TXT not found     STOPMSG  Agent stopped due to iteration limit or time limit.
\*   FRAG, FRAGERR     what is left of a token cut by a slice; FRAGERR still
\*                     holds the characters "error":
TokLen(t) ==
    CASE t = "FJ" -> 7
      [] t = "F3" -> 3
      [] t \in {"NL", "SP", "LB", "RB", "CM"} -> 1
      [] t = "DOC" -> 10
      [] t = "CH" -> 14
      [] t = "PAR" -> 16
      [] t = "ERR" -> 12
      [] t = "ERS" -> 13
      [] t = "TXT" -> 9
      [] t = "STOPMSG" -> 51
      [] OTHER -> 1

IsSpace(t) == t \in {"NL", "SP"}
Members == {"DOC", "CH", "PAR", "ERR", "ERS"}
Key(t) ==
    CASE t = "DOC" -> "doc_id"
      [] t = "CH" -> "chapter_id"
      [] t = "PAR" -> "paragraph_id"
      [] OTHER -> "error"
\* The integer of an id member; the string of an error member is "nf".
IdValue(t) == CASE t = "DOC" -> 9 [] t = "CH" -> 5 [] OTHER -> 4

\* str.strip()
RECURSIVE StripLeft(_)
StripLeft(s) ==
    IF s # <<>> /\ IsSpace(Head(s)) THEN StripLeft(Tail(s)) ELSE s
RECURSIVE StripRight(_)
StripRight(s) ==
    IF s # <<>> /\ IsSpace(s[Len(s)]) THEN StripRight(SubSeq(s, 1, Len(s) - 1)) ELSE s
Strip(s) == StripRight(StripLeft(s))

\* s.startswith("```json")
StartsWithFence(s) == s # <<>> /\ Head(s) = "FJ"

\* What a slice leaves of a token it cuts through.
Fragment(t, kept) == IF t = "ERR" /\ kept >= 8 THEN "FRAGERR" ELSE "FRAG"

\* s[:-n] in characters.
RECURSIVE CutRight(_, _)
CutRight(s, n) ==
    IF n = 0 \/ s = <<>> THEN s
    ELSE LET last == s[Len(s)]
             front == SubSeq(s, 1, Len(s) - 1)
         IN IF TokLen(last) <= n THEN CutRight(front, n - TokLen(last))
            ELSE front \o <<Fragment(last, TokLen(last) - n)>>

\* s[7:-4] of a text that starts with ```json (line 74).
SliceFence(s) == CutRight(Tail(s), 4)

\* '"error":' in s (line 77).
ContainsErrorKey(s) == \E i \in DOMAIN s : s[i] \in {"ERR", "FRAGERR"}

\* json.loads: white space is allowed around every token; an object is
\* members separated by commas between braces. Anything else raises
\* JSONDecodeError.
NoSpace(s) == LET keep(t) == ~IsSpace(t) IN SelectSeq(s, keep)
RECURSIVE MembersOk(_)
MembersOk(u) ==
    \/ /\ Len(u) = 1
       /\ u[1] \in Members
    \/ /\ Len(u) >= 3
       /\ u[1] \in Members
       /\ u[2] = "CM"
       /\ MembersOk(SubSeq(u, 3, Len(u)))
ParseJson(s) ==
    LET u == NoSpace(s)
        inner == SubSeq(u, 2, Len(u) - 1)
        isMember(t) == t \in Members
    IN IF /\ Len(u) >= 2
          /\ u[1] = "LB"
          /\ u[Len(u)] = "RB"
          /\ (inner = <<>> \/ MembersOk(inner))
       THEN [ok |-> TRUE, members |-> SelectSeq(inner, isMember)]
       ELSE [ok |-> FALSE, members |-> <<>>]

Keys(obj) == {Key(obj[i]) : i \in DOMAIN obj}
\* dict lookup: of two members with one key the later one counts.
Get(obj, key) ==
    obj[CHOOSE i \in DOMAIN obj :
          /\ Key(obj[i]) = key
          /\ \A j \in DOMAIN obj : Key(obj[j]) = key => j <= i]
Required == {"doc_id", "chapter_id", "paragraph_id"}

\* ----------------------------------------------- outcomes of the request
Success(loc) == [status |-> 200, location |-> loc]
HttpError(code, detail) == [status |-> code, detail |-> detail]

\* Lines 76-86 and the except clauses of lines 88-103, on the cleaned text.
\* pydantic's ValidationError is none of the three exceptions of line 88, so
\* it reaches the outer handler.
HandlePayload(s) ==
    LET p == ParseJson(s)
    IN IF ~p.ok THEN HttpError(500, "malformed output")
       ELSE IF ContainsErrorKey(s)
            THEN HttpError(404, IF "error" \in Keys(p.members) THEN "nf"
                                ELSE "Justification not found")
       ELSE IF Required \subseteq Keys(p.members)
            THEN Success([doc_id |-> IdValue(Get(p.members, "doc_id")),
                          chapter_id |-> IdValue(Get(p.members, "chapter_id")),
                          paragraph_id |-> IdValue(Get(p.members, "paragraph_id"))])
       ELSE HttpError(500, "internal error")

\* Lines 73-74: the fence clean-up.
CleanOutput(output) ==
    IF StartsWithFence(Strip(output))
    THEN Strip(SliceFence(Strip(output)))
    ELSE output

\* Lines 67-86: the empty output, then the cleaned text.
HandleOutput(output) ==
    IF output = <<>> THEN HttpError(500, "no output")
    ELSE HandlePayload(CleanOutput(output))

\* Lines 56-103 given what ainvoke did: raised, or returned a dict.
HandleResponse(r) ==
    IF r.kind = "raise" THEN HttpError(500, "internal error")
    ELSE IF "output" \notin r.keys THEN HttpError(404, "iteration limit")
    ELSE HandleOutput(r.output)

\* ------------------------------------------------ final answers of the engine
ObjSuccess == <<"LB", "DOC", "CM", "CH", "CM", "PAR", "RB">>
Bodies ==
    { ObjSuccess,
      <<"LB", "NL", "SP", "DOC", "CM", "NL", "SP", "CH", "CM", "NL", "SP", "PAR", "NL", "RB">>,
      <<"LB", "PAR", "CM", "DOC", "CM", "CH", "RB">>,
      <<"LB", "ERR", "RB">>,
      <<"LB", "NL", "SP", "ERR", "NL", "RB">>,
      <<"LB", "ERS", "RB">>,
      <<"LB", "DOC", "CM", "CH", "RB">>,
      <<"LB", "RB">>,
      <<"LB", "DOC", "CM", "CH", "CM", "PAR">>,
      <<"LB", "DOC", "CH", "CM", "PAR", "RB">>,
      ObjSuccess \o <<"RB">>,
      <<"LB", "DOC", "CM", "CH", "CM", "PAR", "CM", "ERR", "RB">>,
      <<"LB", "DOC", "CM", "CH", "CM", "PAR", "CM", "ERS", "RB">>,
      <<"LB", "ERR", "RB", "RB">>,
      <<"TXT">>,
      <<>> }
Gaps == {<<>>, <<"NL">>, <<"SP">>}
Margins == {<<>>, <<"NL">>}
Answers ==
    [fenced : BOOLEAN, lead : Margins, gap1 : Margins, body : Bodies,
     gap2 : Gaps, trail : Margins]
NoAnswer ==
    [fenced |-> FALSE, lead |-> <<>>, gap1 |-> <<>>, body |-> <<>>,
     gap2 |-> <<>>, trail |-> <<>>]
\* The text of an answer: fence markers are written only around a fenced one.
Render(a) ==
    IF a.fenced
    THEN a.lead \o <<"FJ">> \o a.gap1 \o a.body \o a.gap2 \o <<"F3">> \o a.trail
    ELSE a.lead \o a.body \o a.trail

\* ------------------------------------------------------------- Init, both
InitApi ==
    /\ apc = "idle"
    /\ iterations = 0
    /\ tool_calls = 0
    /\ final_emitted = FALSE
    /\ answer = NoAnswer
    /\ response = [kind |-> "none", keys |-> {}, output |-> <<>>]
    /\ outcome = HttpError(0, "")

Init == InitStore /\ InitIngest /\ InitRead /\ InitApi /\ InitFts /\ InitHist

Spec == Init /\ [][Next]_vars

\* The ingestion script run again and again over whatever raw_data/ holds,
\* with the history of the ids it bound.
NextIngest ==
    \/ StartRun
    \/ DropDocuments
    \/ DropFts
    \/ CreateDocuments
    \/ CreateFts
    \/ CreateTrigger
    \/ SetupQdrant
    \/ InsertDocument
    \/ UpsertPoints
    \/ CommitSqliteRecorded
    \/ IngestCrash

SpecIngest == Init /\ [][NextIngest]_vars

\* ----------------------------- find_justifying_paragraph and AgentExecutor
\* Lines 45-58: the request starts the agent loop.
Invoke ==
    /\ apc \in {"idle", "done"}
    /\ apc' = "thinking"
    /\ iterations' = 0
    /\ tool_calls' = 0
    /\ final_emitted' = FALSE
    /\ answer' = NoAnswer
    /\ response' = [kind |-> "none", keys |-> {}, output |-> <<>>]
    /\ outcome' = HttpError(0, "")
    /\ UNCHANGED <<storeVars, ingestVars, readVars, ftsVars, histVars>>

\* The engine asks for hybrid_search; the observation returns to it.
EngineToolCall ==
    /\ apc = "thinking"
    /\ iterations < max_iterations
    /\ iterations' = iterations + 1
    /\ tool_calls' = tool_calls + 1
    /\ UNCHANGED <<apc, final_emitted, answer, response, outcome,
                   storeVars, ingestVars, readVars, ftsVars, histVars>>

\* handle_parsing_errors=True: a turn that is neither a tool call nor a
\* final answer is fed back and uses up one iteration.
EngineUnparseable ==
    /\ apc = "thinking"
    /\ iterations < max_iterations
    /\ iterations' = iterations + 1
    /\ UNCHANGED <<apc, tool_calls, final_emitted, answer, response, outcome,
                   storeVars, ingestVars, readVars, ftsVars, histVars>>

\* The engine emits "Final Answer: ..."; ainvoke returns it as output and
\* the handler runs to its end.
EngineFinalAnswer ==
    /\ apc = "thinking"
    /\ iterations < max_iterations
    /\ \E a \in Answers :
          /\ (~a.fenced => a.gap1 = <<>> /\ a.gap2 = <<>>)
          /\ answer' = a
          /\ response' = [kind |-> "dict", keys |-> {"output"}, output |-> Render(a)]
          /\ outcome' = HandleResponse(response')
    /\ final_emitted' = TRUE
    /\ apc' = "done"
    /\ UNCHANGED <<iterations, tool_calls, storeVars, ingestVars, readVars, ftsVars, histVars>>

\* The budget is used up: the executor (early_stopping_method "force")
\* returns its own stop message as output, and the handler runs to its end.
IterationLimit ==
    /\ apc = "thinking"
    /\ iterations >= max_iterations
    /\ response' = [kind |-> "dict", keys |-> {"output"}, output |-> <<"STOPMSG">>]
    /\ outcome' = HandleResponse(response')
    /\ apc' = "done"
    /\ UNCHANGED <<iterations, tool_calls, final_emitted, answer,
                   storeVars, ingestVars, readVars, ftsVars, histVars>>

\* ainvoke raises (the engine's API fails, or the tool raises out of
\* retrieve): the handler's last except clause answers.
InvokeRaises ==
    /\ apc = "thinking"
    /\ iterations < max_iterations
    /\ response' = [kind |-> "raise", keys |-> {}, output |-> <<>>]
    /\ outcome' = HandleResponse(response')
    /\ apc' = "done"
    /\ UNCHANGED <<iterations, tool_calls, final_emitted, answer,
                   storeVars, ingestVars, readVars, ftsVars, histVars>>

NextApi ==
    \/ Invoke
    \/ EngineToolCall
    \/ EngineUnparseable
    \/ EngineFinalAnswer
    \/ IterationLimit
    \/ InvokeRaises

SpecApi == Init /\ [][NextApi]_vars

\* ------------------------------------------------- _search_sqlite, alone
\* The SQLite file as the ingestion script leaves it when it ends: by its
\* commit (all three objects, the rows of the run and their index entries),
\* or by a statement that throws (any prefix of the five statements of
\* setup_sqlite done on what an earlier run left, or the empty tables of a
\* run that ended before its commit).
StoreLeft ==
    /\ documents_table \in BOOLEAN
    /\ documents_fts \in BOOLEAN
    /\ documents_after_insert \in BOOLEAN
    /\ rows \in PreparedDocuments
    /\ fts_rows \in {DOMAIN d : d \in PreparedDocuments}
    /\ documents_after_insert => (documents_table /\ documents_fts)
    /\ ~documents_table => rows = EmptyFun
    /\ ~documents_fts => fts_rows = {}
    /\ rows # EmptyFun => (documents_after_insert /\ fts_rows = DOMAIN rows)
    /\ (documents_table /\ documents_fts) => fts_rows = DOMAIN rows

\* The call is given any query text and any k.
InitSearch ==
    /\ StoreLeft
    /\ coll_exists = FALSE
    /\ coll_dim = 0
    /\ points = EmptyFun
    /\ InitIngest
    /\ rpc = "idle"
    /\ k \in 1..MaxK
    /\ sqlite_results = <<>>
    /\ qdrant_results = <<>>
    /\ fused_results = <<>>
    /\ ordered_docs = <<>>
    /\ raised = FALSE
    /\ sqlite_error = "none"
    /\ qdrant_error = "none"
    /\ rows_seen = EmptyFun
    /\ store_read = FALSE
    /\ InitApi
    /\ query \in Queries
    /\ sanitized_query = <<>>
    /\ spc = "start"
    /\ InitHist

\* Line 42.
SanitizeQuery ==
    /\ spc = "start"
    /\ sanitized_query' = sanitize_fts_query(query)
    /\ spc' = "match"
    /\ UNCHANGED <<query, storeVars, ingestVars, readVars, apiVars, histVars>>

\* Lines 43-54: the SELECT, and the except clause, which catches
\* sqlite3.Error and nothing else.
ExecuteMatch ==
    /\ spc = "match"
    /\ \E r \in SqliteSearch(FtsSyntaxOk(sanitized_query), k) :
          /\ sqlite_results' = (IF r.error = "none" THEN r.hits ELSE <<>>)
          /\ sqlite_error' = r.error
          /\ raised' = (r.error \notin {"none", "sqlite3.Error"})
    /\ spc' = "done"
    /\ UNCHANGED <<query, sanitized_query, rpc, k, qdrant_results,
                   fused_results, ordered_docs, qdrant_error, rows_seen,
                   store_read, storeVars, ingestVars, apiVars, histVars>>

NextSearch ==
    \/ SanitizeQuery
    \/ ExecuteMatch

SpecSearch == InitSearch /\ [][NextSearch]_vars

\* ================================================================== claims
Pos(list, id) == CHOOSE i \in DOMAIN list : list[i] = id
\* The term one list gives an id: 1/(60 + r + 1) at 0-based rank r.
RankTerm(list, id) ==
    IF id \in Range(list) THEN <<1, 60 + (Pos(list, id) - 1) + 1>> ELSE Zero
Records(ids, store) == [i \in DOMAIN ids |-> [id |-> ids[i], para |-> store[ids[i]]]]

\* C2: once fusion has run, the fused list holds exactly the ids of the two
\* hit lists, each once, and the score of each is the sum of 1/(60 + r + 1)
\* over the lists that hold it at 0-based rank r.
C2_FusedScoreIsSumOfRankTerms ==
    rpc = "done" =>
        /\ {fused_results[i].id : i \in DOMAIN fused_results}
              = Range(sqlite_results) \cup Range(qdrant_results)
        /\ \A i, j \in DOMAIN fused_results :
              i # j => fused_results[i].id # fused_results[j].id
        /\ \A i \in DOMAIN fused_results :
              FracEq(fused_results[i].score,
                     FracAdd(RankTerm(sqlite_results, fused_results[i].id),
                             RankTerm(qdrant_results, fused_results[i].id)))

\* C2 witness: a fusion of one id found by both searches and one found by
\* the vector search alone.
C2_Witness ==
    /\ rpc = "done"
    /\ \E a \in Range(sqlite_results) \cap Range(qdrant_results) :
       \E b \in Range(qdrant_results) \ Range(sqlite_results) : a # b

\* C3: the fused list is in descending score order and ids of equal score
\* are in ascending id order.
C3_FusedOrderTieBreakById ==
    rpc = "done" =>
        \A i, j \in DOMAIN fused_results :
            i < j =>
                \/ FracLess(fused_results[j].score, fused_results[i].score)
                \/ /\ FracEq(fused_results[i].score, fused_results[j].score)
                   /\ fused_results[i].id < fused_results[j].id

\* C4: when exactly one of the two searches failed, retrieve does not raise,
\* the failed source gave the empty list, and the result is the records of
\* the other source's hits, in its order.
C4_SingleSourceFaultAbsorbed ==
    (rpc = "done" /\ ((sqlite_error = "none") # (qdrant_error = "none"))) =>
        LET other == IF sqlite_error = "none" THEN sqlite_results ELSE qdrant_results
            present(id) == id \in DOMAIN rows_seen
        IN /\ ~raised
           /\ (sqlite_error # "none" => sqlite_results = <<>>)
           /\ (qdrant_error # "none" => qdrant_results = <<>>)
           /\ ordered_docs = Records(SelectSeq(other, present), rows_seen)

\* C5: every call of retrieve returns, without raising, the first k ids of
\* the fused order without the ids that have no row in documents, in the
\* same order, as records; so at most k records, none from outside the first
\* k fused ids, and no error for an id the store does not hold.
C5_RetrieveIsTopKPresentInFusedOrder ==
    rpc = "done" =>
        LET present(id) == id \in DOMAIN rows_seen
            top == SubSeq(FusedIds(fused_results), 1, MinOf(k, Len(fused_results)))
        IN /\ ~raised
           /\ ordered_docs = Records(SelectSeq(top, present), rows_seen)
           /\ Len(ordered_docs) <= k

\* What a reader's queries see of the three stores.
RecordStoreIds == IF documents_table THEN DOMAIN rows ELSE {}
KeywordIndexIds == IF documents_fts THEN fts_rows ELSE {}
VectorIndexIds == IF coll_exists THEN DOMAIN points ELSE {}

\* C9: in every state a reader can see, an id is in the Record Store, the
\* Keyword Index and the Vector Index, or in none of them.
C9_IdInAllStoresOrNone ==
    \A id \in RecordStoreIds \cup KeywordIndexIds \cup VectorIndexIds :
        /\ id \in RecordStoreIds
        /\ id \in KeywordIndexIds
        /\ id \in VectorIndexIds

\* The payload of an answer is its body. It is incomplete when it is not a
\* JSON object, or is one that lacks a required field and has no error field.
IsObject(body) == ParseJson(body).ok
BodyKeys(body) == Keys(ParseJson(body).members)
Incomplete(body) ==
    \/ ~IsObject(body)
    \/ /\ ~(Required \subseteq BodyKeys(body))
       /\ "error" \notin BodyKeys(body)

\* Two outcomes are the same to a caller: the status, the location of a
\* success, the error string of a 404.
SameOutcome(a, b) ==
    /\ a.status = b.status
    /\ (a.status = 200 => a.location = b.location)
    /\ (a.status = 404 => a.detail = b.detail)

\* C1: the loop makes at most max_iterations tool calls, and a request whose
\* engine gave no final answer within max_iterations tool calls ends as the
\* iteration-limit failure of the not-found class, not as a success and not
\* as an internal error.
C1_IterationLimitIsNotFound ==
    /\ tool_calls <= max_iterations
    /\ (apc = "done" /\ ~final_emitted /\ tool_calls = max_iterations) =>
          outcome = HttpError(404, "iteration limit")

\* C6: a final answer whose payload is malformed, or is an object that lacks
\* a required field and has no error field, ends as an internal error (500),
\* never as a success and never as not found.
C6_IncompletePayloadIsInternalError ==
    (apc = "done" /\ final_emitted /\ Incomplete(answer.body)) =>
        outcome.status = 500

\* C7: a structured payload inside fence markers, with or without white
\* space between the object and the markers, ends as the same payload does
\* without them.
C7_FencedSameAsUnfenced ==
    (apc = "done" /\ final_emitted /\ answer.fenced /\ IsObject(answer.body)) =>
        SameOutcome(outcome, HandleOutput(answer.body))

\* C8: a final answer that is an object of the failure form, in any layout,
\* ends as not found (404) with its error string; one that is an object of
\* the success form never ends as not found.
C8_FailureObjectIsNotFound ==
    (apc = "done" /\ final_emitted /\ ~answer.fenced /\ IsObject(answer.body)) =>
        /\ BodyKeys(answer.body) = {"error"} => outcome = HttpError(404, "nf")
        /\ BodyKeys(answer.body) = Required => outcome.status # 404

\* The MATCH string is the query with every character outside Kept
\* replaced by whitespace and every character of Kept left as it is.
SanitizedKeeping(Kept) ==
    /\ Len(sanitized_query) = Len(query)
    /\ \A i \in 1..Len(query) :
          IF query[i] \in Kept
          THEN sanitized_query[i] = query[i]
          ELSE sanitized_query[i] \in Whitespace

\* _search_sqlite returned at most k hits and raised nothing, and the empty
\* list for a MATCH string that is empty or all whitespace.
SearchReturnsHits ==
    /\ Len(sqlite_results) <= k
    /\ ~raised
    /\ (\A i \in 1..Len(sanitized_query) : sanitized_query[i] \in Whitespace)
          => sqlite_results = <<>>

\* C11: for every query, _sanitize_fts_query replaces each character that
\* is neither alphanumeric nor whitespace by whitespace and leaves all other
\* characters unchanged, and _search_sqlite on the sanitized query returns
\* at most k hits without raising, the empty list when the sanitized query
\* is empty or whitespace-only.
C11_SanitizeKeepsAlnumAndSpace ==
    spc = "done" => SanitizedKeeping(Alnum \cup Whitespace) /\ SearchReturnsHits

\* C11, amended: the characters left unchanged are the word characters of
\* \w (alphanumeric or underscore) and whitespace; every other character is
\* replaced by whitespace; _search_sqlite returns at most k hits without
\* raising, the empty list when the sanitized query is empty or
\* whitespace-only.
C11_SanitizeKeepsWordCharsAndSpace ==
    spc = "done" => SanitizedKeeping(WordChars \cup Whitespace) /\ SearchReturnsHits

\* A query of punctuation only, on a database that has its index: the
\* MATCH string is all blanks, FTS5 rejects it, the caller gets [].
C11_Witness ==
    /\ spc = "done"
    /\ documents_fts
    /\ fts_rows # {}
    /\ query # <<>>
    /\ \A i \in 1..Len(query) : query[i] = "*"
    /\ sqlite_error = "sqlite3.Error"
    /\ sqlite_results = <<>>

\* C12: across any sequence of ingestion runs the Record Store never
\* assigns an id that was already assigned: once an id has denoted a
\* paragraph (doc_id, chapter_id, paragraph_id) it never denotes a different
\* one, also after a later run rebuilt the store from other documents.
C12_IdNeverDenotesAnotherParagraph ==
    \A e1, e2 \in denoted : e1[1] = e2[1] => e1[2] = e2[2]

\* C13: if the keyword search and the vector search both gave the empty
\* list for a query (nothing matched, or both backends failed), retrieve
\* returns the empty sequence, raises nothing and does not read the
\* documents table.
C13_NothingFoundReturnsEmptyUnread ==
    (rpc = "done" /\ sqlite_results = <<>> /\ qdrant_results = <<>>)
        => (ordered_docs = <<>> /\ ~raised /\ ~store_read)

\* Both backends failed, and the database has no documents table: a read
\* of it would have raised.
C13_Witness ==
    /\ rpc = "done"
    /\ sqlite_results = <<>>
    /\ qdrant_results = <<>>
    /\ sqlite_error # "none"
    /\ qdrant_error # "none"
    /\ ~documents_table
    /\ ordered_docs = <<>>

\* C14: every request ends in exactly one of three outcomes (success with a
\* ParagraphLocation, 404, 500); a success occurs only if the engine emitted
\* a final answer whose fence-stripped text parses to an object that holds
\* doc_id, chapter_id and paragraph_id and no error key, and the location
\* returned has that object's three values.
C14_ThreeOutcomesSuccessOnlyForLocation ==
    apc = "done" =>
        /\ outcome.status \in {200, 404, 500}
        /\ outcome.status = 200 =>
              /\ final_emitted
              /\ LET p == ParseJson(CleanOutput(response.output))
                 IN /\ p.ok
                    /\ Required \subseteq Keys(p.members)
                    /\ "error" \notin Keys(p.members)
                    /\ outcome.location.doc_id = IdValue(Get(p.members, "doc_id"))
                    /\ outcome.location.chapter_id = IdValue(Get(p.members, "chapter_id"))
                    /\ outcome.location.paragraph_id = IdValue(Get(p.members, "paragraph_id"))

====
